---------------------------- MODULE Spec2Model ----------------------------
(***************************************************************************)
(* Token lifecycle of APIClient (src/app.py): the token cache file, the    *)
(* login exchange, and the 401 refresh-and-retry of get, together with the *)
(* client operations that talk to the server without going through get.    *)
(*                                                                         *)
(* One external call is followed from its invocation to its return; every  *)
(* network call is one step, answered by the server in an arbitrary way.   *)
(***************************************************************************)
EXTENDS Integers, Sequences, FiniteSets

\* Number of distinct bearer tokens the server can hand out.
MaxTokens == 2

(***************************************************************************)
(* Python values.  A token is an opaque non-empty string, coded 1..MaxTokens.*)
(* None, the empty string and a truthy non-string JSON value (a number)     *)
(* are the other values a "token"/"key" field can hold.                     *)
(***************************************************************************)
Tokens == 1..MaxTokens
None == 0
EmptyStr == -1
NumTok == -2
JsonVals == Tokens \cup {None, EmptyStr, NumTok}

\* Python truthiness, as used by `if not self.token` and `if token`.
Truthy(v) == v \notin {None, EmptyStr}

\* `except requests.RequestException`
IsRequestException(e) == e \in {"ConnectionError", "HTTPError", "JSONDecodeError"}

(***************************************************************************)
(* The cache file TOKEN_FILE.                                              *)
(*   absent     : os.path.exists is false                                  *)
(*   unreadable : exists, open() raises OSError                            *)
(*   unparsable : json.load raises (empty, truncated or garbage content)   *)
(*   notobject  : valid JSON that is not an object (.get raises)           *)
(*   object     : a JSON object; token is the value of its "token" field,  *)
(*                None when the field is missing or null                   *)
(***************************************************************************)
File(k, t) == [kind |-> k, token |-> t]
Absent == File("absent", None)
FileStates ==
  {File(k, None) : k \in {"absent", "unreadable", "unparsable", "notobject"}}
    \cup {File("object", t) : t \in JsonVals}

Exists(f) == f.kind # "absent"

\* What the body of the try block of _load_token does: a value or an exception.
ReadToken(f) ==
  CASE f.kind = "unreadable" -> [val |-> None, exc |-> "OSError"]
    [] f.kind = "unparsable" -> [val |-> None, exc |-> "ValueError"]
    [] f.kind = "notobject"  -> [val |-> None, exc |-> "AttributeError"]
    [] OTHER                 -> [val |-> f.token, exc |-> "none"]

\* Variant: the handler names json's decode error only.
LoadCatchesDecodeOnly(e) == e = "ValueError"

\* `except Exception` of _load_token
LoadCatches(e) == TRUE

\* Variant: the record is read under the login response's field name "key".
LoadTokenWrongField(f) == [val |-> None, exc |-> "none"]

\* _load_token
LoadToken(f) ==
  IF ~Exists(f) THEN [val |-> None, exc |-> "none"]
  ELSE LET r == ReadToken(f) IN
       IF r.exc # "none" /\ LoadCatches(r.exc)
         THEN [val |-> None, exc |-> "none"]
         ELSE r

(***************************************************************************)
(* json.dump({"token": t}, file) writes the record piece by piece, in this *)
(* order; json.load accepts a content only if it is a complete record.     *)
(***************************************************************************)
Chunk(c, t) == [c |-> c, t |-> t]
Encode(t) ==
  <<Chunk("{", None), Chunk("\"token\"", None), Chunk(": ", None),
    Chunk("string", t), Chunk("}", None)>>
Decode(q) ==
  IF \E t \in JsonVals : q = Encode(t)
    THEN File("object", (CHOOSE t \in JsonVals : q = Encode(t)))
    ELSE File("unparsable", None)

\* The pieces a cache file holds, as far as a later write can leave them behind.
ContentOf(f) == IF f.kind = "object" THEN Encode(f.token) ELSE <<>>

\* How a write of the cache file can go.
SaveOutcomes == {"ok", "openfail", "writefail"}

\* Variant: the record is written under the login response's field name "key".
WriteTokenKeyField(f, t, how) ==
  CASE how = "ok"        -> [file |-> File("object", None), exc |-> "none"]
    [] how = "openfail"  -> [file |-> f, exc |-> "OSError"]
    [] how = "writefail" -> [file |-> File("unparsable", None), exc |-> "OSError"]

\* What the body of the try block of _save_token does to the file.
WriteToken(f, t, how) ==
  CASE how = "ok"        -> [file |-> Decode(Encode(t)), exc |-> "none"]
    [] how = "openfail"  -> [file |-> f, exc |-> "OSError"]
    [] how = "writefail" -> [file |-> File("unparsable", None), exc |-> "OSError"]

\* `except Exception` of _save_token
SaveCatches(e) == TRUE

\* Variant: the write is left out.
SaveTokenSkipped(f, t, how) == [file |-> f, exc |-> "none"]

\* _save_token
SaveToken(f, t, how) ==
  LET r == WriteToken(f, t, how) IN
  IF r.exc # "none" /\ SaveCatches(r.exc)
    THEN [file |-> r.file, exc |-> "none"]
    ELSE r

\* Variant: open(TOKEN_FILE, "r+"), which does not truncate.
CrashWriteNoTruncate(f, t, k) ==
  Decode(SubSeq(Encode(t), 1, k) \o SubSeq(ContentOf(f), k + 1, Len(ContentOf(f))))

\* The file left behind when the process dies inside _save_token(t), after
\* open(TOKEN_FILE, "w") truncated the file and k pieces reached it.
CrashWrite(f, t, k) == Decode(SubSeq(Encode(t), 1, k))

\* Variant: os.remove without the os.path.exists test.
DeleteTokenUnchecked(f, removeOk) ==
  IF Exists(f) /\ removeOk THEN [file |-> Absent, exc |-> "none"]
                           ELSE [file |-> f, exc |-> "OSError"]

\* Variant: a failing os.remove is swallowed.
DeleteTokenIgnoresErrors(f, removeOk) ==
  IF Exists(f) /\ removeOk THEN [file |-> Absent, exc |-> "none"]
                           ELSE [file |-> f, exc |-> "none"]

\* Variant: the refresh leaves the old record in place.
DeleteTokenKeeps(f, removeOk) == [file |-> f, exc |-> "none"]

\* _delete_token: os.remove is not guarded, its OSError propagates.
DeleteToken(f, removeOk) ==
  IF Exists(f)
    THEN IF removeOk THEN [file |-> Absent, exc |-> "none"]
                     ELSE [file |-> f, exc |-> "OSError"]
    ELSE [file |-> f, exc |-> "none"]

(***************************************************************************)
(* Server responses.  status 0 stands for a transport failure (no          *)
(* response).  body is the payload of a data response; key is the value of *)
(* the "key" field of a login response.                                    *)
(***************************************************************************)
Bodies == {"nonjson", "noresults", "emptyresults", "storage"}
Resp(s, b, k) == [status |-> s, body |-> b, key |-> k]
NoResp == Resp(0, "nonjson", None)
DataResponses ==
  {NoResp} \cup {Resp(s, b, None) : s \in {200, 401, 404, 500}, b \in Bodies}
LoginResponses ==
  {NoResp, Resp(400, "nonjson", None), Resp(200, "nonjson", None)}
    \cup {Resp(200, "object", k) : k \in Tokens \cup {None, EmptyStr}}

\* response.raise_for_status()
RaiseForStatus(r) == IF r.status >= 400 THEN "HTTPError" ELSE "none"

\* response.json(): a body that is not JSON raises requests' JSONDecodeError,
\* a RequestException (requests 2.27 and later).
JsonOf(r) ==
  IF r.body = "nonjson" THEN [val |-> "None", exc |-> "JSONDecodeError"]
                        ELSE [val |-> r.body, exc |-> "none"]

\* Variant: the token of the login answer is returned without the test of
\* line 96.
AuthenticateReturnsUntested(f, r, how) ==
  IF r.status = 0
    THEN [token |-> None, file |-> f, exc |-> "ConnectionError", saved |-> "none"]
  ELSE IF RaiseForStatus(r) # "none"
    THEN [token |-> None, file |-> f, exc |-> RaiseForStatus(r), saved |-> "none"]
  ELSE IF r.body = "nonjson"
    THEN [token |-> None, file |-> f, exc |-> "JSONDecodeError", saved |-> "none"]
  ELSE IF Truthy(r.key)
    THEN LET s == SaveToken(f, r.key, how) IN
         IF s.exc # "none"
           THEN [token |-> None, file |-> s.file, exc |-> s.exc, saved |-> how]
           ELSE [token |-> r.key, file |-> s.file, exc |-> "none", saved |-> how]
  ELSE [token |-> r.key, file |-> f, exc |-> "none", saved |-> "none"]

\* Variant: the token is written before it is tested.
AuthenticateSavesUntested(f, r, how) ==
  IF r.status = 0
    THEN [token |-> None, file |-> f, exc |-> "ConnectionError", saved |-> "none"]
  ELSE IF RaiseForStatus(r) # "none"
    THEN [token |-> None, file |-> f, exc |-> RaiseForStatus(r), saved |-> "none"]
  ELSE IF r.body = "nonjson"
    THEN [token |-> None, file |-> f, exc |-> "JSONDecodeError", saved |-> "none"]
  ELSE LET s == SaveToken(f, r.key, how) IN
       IF Truthy(r.key)
         THEN [token |-> r.key, file |-> s.file, exc |-> s.exc, saved |-> how]
         ELSE [token |-> None, file |-> s.file, exc |-> "Exception", saved |-> how]

\* _authenticate, from the answer of the login endpoint on.
Authenticate(f, r, how) ==
  IF r.status = 0
    THEN [token |-> None, file |-> f, exc |-> "ConnectionError", saved |-> "none"]
  ELSE IF RaiseForStatus(r) # "none"
    THEN [token |-> None, file |-> f, exc |-> RaiseForStatus(r), saved |-> "none"]
  ELSE IF r.body = "nonjson"
    THEN [token |-> None, file |-> f, exc |-> "JSONDecodeError", saved |-> "none"]
  ELSE IF Truthy(r.key)
    THEN LET s == SaveToken(f, r.key, how) IN
         IF s.exc # "none"
           THEN [token |-> None, file |-> s.file, exc |-> s.exc, saved |-> how]
           ELSE [token |-> r.key, file |-> s.file, exc |-> "none", saved |-> how]
  ELSE [token |-> None, file |-> f, exc |-> "Exception", saved |-> "none"]


(***************************************************************************)
(* State.                                                                  *)
(*   file       : content of TOKEN_FILE                                    *)
(*   token      : self.token                                               *)
(*   authHeader : self.session.headers["Authorization"] (None while unset) *)
(*   pc         : position of the control flow                             *)
(*   op         : the operation last invoked; "get" for every call of get, *)
(*                whichever method made it                                 *)
(*   retry      : the retry argument of the running get                    *)
(*   calls      : what the running operation did on the network, in order  *)
(*   ret, exc   : its return value, or the exception that left it          *)
(*   saved      : how the _save_token of the running operation went        *)
(*   stored     : the token handed to that _save_token                     *)
(*   loaded     : what the last _load_token returned                       *)
(*   file0, token0 : file and token when the running operation was invoked *)
(*   S3_ID      : self.S3_ID                                               *)
(*   caller     : the method that invoked the running get: "get" for a     *)
(*                call from outside or from a listing method that only     *)
(*                prints the result, else the name of the method           *)
(***************************************************************************)
VARIABLES file, token, authHeader, pc, op, retry, calls, ret, exc,
          saved, stored, loaded, file0, token0, S3_ID, caller

vars == <<file, token, authHeader, pc, op, retry, calls, ret, exc,
          saved, stored, loaded, file0, token0, S3_ID, caller>>

\* One entry of calls: a request as it was sent and the answer it got.
Call(k, a, rt, r) == [kind |-> k, auth |-> a, retry |-> rt, resp |-> r]
Sleep == Call("sleep", None, FALSE, NoResp)

\* Variant: the pause is taken after a failed attempt only.
AuthTraceSleepsAfterFailure(hdr, r) ==
  IF r.status = 200 /\ r.body = "object" /\ Truthy(r.key)
    THEN <<Call("login", hdr, FALSE, r)>>
    ELSE <<Call("login", hdr, FALSE, r), Sleep>>

\* Lines 85-88: time.sleep(3), then the login request, sent with the
\* session's headers and answered by r.
AuthTrace(hdr, r) == <<Sleep, Call("login", hdr, FALSE, r)>>

\* Variant: the header is not refreshed before the dispatch.
UpdateHeadersSkipped(hdr, tok) == hdr

\* _update_headers: the session's Authorization header after the update.
UpdateHeaders(hdr, tok) == tok

\* The Authorization header of a request sent with explicit headers: they
\* take precedence over the session's.
RequestAuth(hdr, explicit) == explicit

\* `except requests.RequestException` of get
GetCatches(e) == IsRequestException(e)

\* Variant: the recursive call keeps the default retry.
RetryArgKept == TRUE

\* The retry argument of the recursive call, line 127.
RetryArg == FALSE

\* Variant: line 122 without `and retry`.
EvaluateIgnoresRetry(r, rt) ==
  IF r.status = 0 THEN [step |-> "raise", val |-> "None", exc |-> "ConnectionError"]
  ELSE IF r.status = 401 THEN [step |-> "refresh", val |-> "None", exc |-> "none"]
  ELSE IF RaiseForStatus(r) # "none"
    THEN [step |-> "raise", val |-> "None", exc |-> RaiseForStatus(r)]
  ELSE LET j == JsonOf(r) IN
       IF j.exc # "none" THEN [step |-> "raise", val |-> "None", exc |-> j.exc]
                         ELSE [step |-> "return", val |-> j.val, exc |-> "none"]

\* Variant: line 129 without `return`.
EvaluateDropsPayload(r, rt) ==
  IF r.status = 0 THEN [step |-> "raise", val |-> "None", exc |-> "ConnectionError"]
  ELSE IF r.status = 401 /\ rt THEN [step |-> "refresh", val |-> "None", exc |-> "none"]
  ELSE IF RaiseForStatus(r) # "none"
    THEN [step |-> "raise", val |-> "None", exc |-> RaiseForStatus(r)]
  ELSE LET j == JsonOf(r) IN
       IF j.exc # "none" THEN [step |-> "raise", val |-> "None", exc |-> j.exc]
                         ELSE [step |-> "return", val |-> "None", exc |-> "none"]

\* Variant: line 122 tests for any client error.
EvaluateRefreshesOnClientError(r, rt) ==
  IF r.status = 0 THEN [step |-> "raise", val |-> "None", exc |-> "ConnectionError"]
  ELSE IF r.status \in 400..499 /\ rt
    THEN [step |-> "refresh", val |-> "None", exc |-> "none"]
  ELSE IF RaiseForStatus(r) # "none"
    THEN [step |-> "raise", val |-> "None", exc |-> RaiseForStatus(r)]
  ELSE LET j == JsonOf(r) IN
       IF j.exc # "none" THEN [step |-> "raise", val |-> "None", exc |-> j.exc]
                         ELSE [step |-> "return", val |-> j.val, exc |-> "none"]

\* Variant: a transport failure is taken for an expired token.
EvaluateRefreshesOnNoAnswer(r, rt) ==
  IF r.status \in {0, 401} /\ rt
    THEN [step |-> "refresh", val |-> "None", exc |-> "none"]
  ELSE IF r.status = 0
    THEN [step |-> "raise", val |-> "None", exc |-> "ConnectionError"]
  ELSE IF RaiseForStatus(r) # "none"
    THEN [step |-> "raise", val |-> "None", exc |-> RaiseForStatus(r)]
  ELSE LET j == JsonOf(r) IN
       IF j.exc # "none" THEN [step |-> "raise", val |-> "None", exc |-> j.exc]
                         ELSE [step |-> "return", val |-> j.val, exc |-> "none"]

\* Lines 121-129 of get after the answer r arrived, under the flag rt.
Evaluate(r, rt) ==
  IF r.status = 0 THEN [step |-> "raise", val |-> "None", exc |-> "ConnectionError"]
  ELSE IF r.status = 401 /\ rt THEN [step |-> "refresh", val |-> "None", exc |-> "none"]
  ELSE IF RaiseForStatus(r) # "none"
    THEN [step |-> "raise", val |-> "None", exc |-> RaiseForStatus(r)]
  ELSE LET j == JsonOf(r) IN
       IF j.exc # "none" THEN [step |-> "raise", val |-> "None", exc |-> j.exc]
                         ELSE [step |-> "return", val |-> j.val, exc |-> "none"]

\* How an exception e raised inside the try block of get leaves get.
GetExcept(e) ==
  IF GetCatches(e) THEN [val |-> "None", exc |-> "none"]
                   ELSE [val |-> "None", exc |-> e]

\* The id of the first storage of a "storage" body.
FirstStorageId == 1

\* Lines 140-147 of get_cloudstorages: S3_ID after get returned v.
CloudStoragesResult(v) == IF v = "storage" THEN FirstStorageId ELSE None

\* self.S3_ID once the get invoked by method c is over with x: only
\* get_cloudstorages assigns it, and only if get returned to it.
AfterGet(c, x, old) ==
  IF c = "get_cloudstorages" /\ x.exc = "none" THEN CloudStoragesResult(x.val)
                                                ELSE old

Init ==
  /\ file \in FileStates
  /\ token = None
  /\ authHeader = None
  /\ pc = "new"
  /\ op = "none"
  /\ retry = FALSE
  /\ calls = <<>>
  /\ ret = "None"
  /\ exc = "none"
  /\ saved = "none"
  /\ stored = None
  /\ loaded = None
  /\ file0 = file
  /\ token0 = None
  /\ S3_ID = None
  /\ caller = "none"

\* APIClient.__init__ up to the decision to authenticate.
Construct ==
  /\ pc = "new"
  /\ LET r == LoadToken(file) IN
       /\ op' = "init"
       /\ loaded' = r.val
       /\ IF r.exc # "none"
            THEN /\ pc' = "failed"
                 /\ exc' = r.exc
                 /\ token' = token
            ELSE /\ token' = r.val
                 /\ exc' = exc
                 /\ pc' = IF ~Truthy(r.val) THEN "ctor_auth" ELSE "ready"
  /\ UNCHANGED <<file, authHeader, retry, calls, ret, saved, stored, file0, token0,
                 S3_ID, caller>>

\* self.token = self._authenticate(), in __init__ and in get.
AuthStep ==
  /\ pc \in {"ctor_auth", "get_auth"}
  /\ \E r \in LoginResponses, how \in SaveOutcomes :
       LET a == Authenticate(file, r, how) IN
         /\ calls' = calls \o AuthTrace(authHeader, r)
         /\ file' = a.file
         /\ saved' = a.saved
         /\ stored' = IF a.saved # "none" THEN r.key ELSE stored
         /\ IF pc = "ctor_auth"
              THEN /\ token' = IF a.exc = "none" THEN a.token ELSE token
                   /\ pc' = IF a.exc = "none" THEN "ready" ELSE "failed"
                   /\ exc' = a.exc
                   /\ UNCHANGED <<authHeader, retry, ret>>
              ELSE IF a.exc = "none"
                THEN /\ token' = a.token
                     /\ authHeader' = UpdateHeaders(authHeader, a.token)
                     /\ retry' = RetryArg
                     /\ pc' = "get"
                     /\ UNCHANGED <<ret, exc>>
                ELSE /\ ret' = GetExcept(a.exc).val
                     /\ exc' = GetExcept(a.exc).exc
                     /\ pc' = "ready"
                     /\ UNCHANGED <<token, authHeader, retry>>
  /\ S3_ID' = IF pc' = "ready" /\ pc = "get_auth"
                THEN AfterGet(caller, [val |-> ret', exc |-> exc'], S3_ID)
                ELSE S3_ID
  /\ UNCHANGED <<op, loaded, file0, token0, caller>>

\* Method c calls get(endpoint, params): retry takes its default.
EnterGet(c) ==
  /\ op' = "get"
  /\ caller' = c
  /\ retry' = TRUE
  /\ calls' = <<>>
  /\ ret' = "None"
  /\ exc' = "none"
  /\ pc' = "get"
  /\ saved' = "none"
  /\ stored' = None
  /\ file0' = file
  /\ token0' = token
  /\ UNCHANGED <<file, token, authHeader, loaded, S3_ID>>

\* get called from outside, or by list_projects, get_project_details,
\* list_labels or get_tasks, which print what it returns.
GetCall ==
  /\ pc = "ready"
  /\ EnterGet("get")

\* get_cloudstorages, up to its call of get.
GetCloudStorages ==
  /\ pc = "ready"
  /\ EnterGet("get_cloudstorages")

\* list_s3_contents: the early return of lines 151-153, or its call of get.
ListS3Contents ==
  /\ pc = "ready"
  /\ IF S3_ID = None
       THEN /\ op' = "list_s3_contents"
            /\ caller' = "list_s3_contents"
            /\ calls' = <<>>
            /\ ret' = "None"
            /\ exc' = "none"
            /\ saved' = "none"
            /\ stored' = None
            /\ file0' = file
            /\ token0' = token
            /\ UNCHANGED <<file, token, authHeader, pc, retry, loaded, S3_ID>>
       ELSE EnterGet("list_s3_contents")

\* The body of get: inject the header, dispatch, evaluate the answer.
GetBody ==
  /\ pc = "get"
  /\ authHeader' = UpdateHeaders(authHeader, token)
  /\ \E r \in DataResponses :
       LET e == Evaluate(r, retry) IN
         /\ calls' = Append(calls, Call("data", authHeader', retry, r))
         /\ CASE e.step = "refresh" ->
                   /\ pc' = "get_delete"
                   /\ UNCHANGED <<ret, exc>>
              [] e.step = "return" ->
                   /\ pc' = "ready"
                   /\ ret' = e.val
                   /\ exc' = "none"
              [] e.step = "raise" ->
                   /\ pc' = "ready"
                   /\ ret' = GetExcept(e.exc).val
                   /\ exc' = GetExcept(e.exc).exc
  /\ S3_ID' = IF pc' = "ready"
                THEN AfterGet(caller, [val |-> ret', exc |-> exc'], S3_ID)
                ELSE S3_ID
  /\ UNCHANGED <<file, token, op, retry, saved, stored, loaded, file0, token0,
                 caller>>

\* self._delete_token() of the refresh, line 124.
GetDelete ==
  /\ pc = "get_delete"
  /\ \E removeOk \in BOOLEAN :
       LET d == DeleteToken(file, removeOk) IN
         /\ file' = d.file
         /\ IF d.exc = "none"
              THEN /\ pc' = "get_auth"
                   /\ UNCHANGED <<ret, exc>>
              ELSE /\ pc' = "ready"
                   /\ ret' = GetExcept(d.exc).val
                   /\ exc' = GetExcept(d.exc).exc
  /\ S3_ID' = IF pc' = "ready"
                THEN AfterGet(caller, [val |-> ret', exc |-> exc'], S3_ID)
                ELSE S3_ID
  /\ UNCHANGED <<token, authHeader, op, retry, calls, saved, stored, loaded,
                 file0, token0, caller>>

\* Lines 355-357 / 456-463 / 484-486: one request with explicit headers,
\* answered by r; 500 is the status upload_image_to_taskID tests first.
Direct(r) ==
  IF r.status = 0 THEN [val |-> "None", exc |-> "ConnectionError"]
  ELSE IF RaiseForStatus(r) # "none" THEN [val |-> "None", exc |-> RaiseForStatus(r)]
  ELSE JsonOf(r)

\* The except clause of the three direct operations.
DirectExcept(x) ==
  IF x.exc # "none" /\ IsRequestException(x.exc)
    THEN [val |-> "None", exc |-> "none"]
    ELSE x

\* create_task(json_file_path)
CreateTask ==
  /\ pc = "ready"
  /\ op' = "create_task"
  /\ \E jsonFile \in {"notfound", "invalid", "ok"}, r \in DataResponses :
       IF jsonFile # "ok"
         THEN /\ calls' = <<>>
              /\ ret' = "None"
              /\ exc' = "none"
         ELSE LET x == DirectExcept(Direct(r)) IN
              /\ calls' = <<Call("data", RequestAuth(authHeader, token), FALSE, r)>>
              /\ ret' = IF x.val = "None" THEN "None" ELSE "formatted"
              /\ exc' = x.exc
  /\ saved' = "none"
  /\ stored' = None
  /\ file0' = file
  /\ token0' = token
  /\ UNCHANGED <<file, token, authHeader, pc, retry, loaded, S3_ID, caller>>

\* upload_image_to_taskID(task_id, server_files, cloud_storage_id)
UploadImage ==
  /\ pc = "ready"
  /\ op' = "upload_image_to_taskID"
  /\ \E missing \in BOOLEAN, r \in DataResponses :
       IF missing
         THEN /\ calls' = <<>>
              /\ ret' = "None"
              /\ exc' = "none"
         ELSE LET x == IF r.status = 500 THEN [val |-> "None", exc |-> "none"]
                                         ELSE DirectExcept(Direct(r)) IN
              /\ calls' = <<Call("data", RequestAuth(authHeader, token), FALSE, r)>>
              /\ ret' = x.val
              /\ exc' = x.exc
  /\ saved' = "none"
  /\ stored' = None
  /\ file0' = file
  /\ token0' = token
  /\ UNCHANGED <<file, token, authHeader, pc, retry, loaded, S3_ID, caller>>

\* get_labels_for_task(task_id)
GetLabelsForTask ==
  /\ pc = "ready"
  /\ op' = "get_labels_for_task"
  /\ \E r \in DataResponses :
       LET x == DirectExcept(Direct(r)) IN
         /\ calls' = <<Call("data", RequestAuth(authHeader, token), FALSE, r)>>
         /\ ret' = IF x.val \in {"noresults", "emptyresults"} THEN "None" ELSE x.val
         /\ exc' = x.exc
  /\ saved' = "none"
  /\ stored' = None
  /\ file0' = file
  /\ token0' = token
  /\ UNCHANGED <<file, token, authHeader, pc, retry, loaded, S3_ID, caller>>

Next ==
  \/ Construct
  \/ AuthStep
  \/ GetCall
  \/ GetCloudStorages
  \/ ListS3Contents
  \/ GetBody
  \/ GetDelete
  \/ CreateTask
  \/ UploadImage
  \/ GetLabelsForTask

Spec == Init /\ [][Next]_vars

\* Every network call and every file operation of a running call returns.
FairSpec ==
  /\ Spec
  /\ WF_vars(GetBody)
  /\ WF_vars(GetDelete)
  /\ WF_vars(AuthStep)

(***************************************************************************)
(* The token store on its own: _save_token, _load_token and _delete_token  *)
(* applied to the cache file in any order, and a process that dies inside  *)
(* _save_token.                                                            *)
(***************************************************************************)
StoreSave ==
  /\ \E t \in Tokens, how \in SaveOutcomes :
       LET s == SaveToken(file, t, how) IN
         /\ file' = s.file
         /\ exc' = s.exc
         /\ stored' = t
         /\ saved' = how
  /\ op' = "save"
  /\ file0' = file
  /\ UNCHANGED <<token, authHeader, pc, retry, calls, ret, loaded, token0,
                 S3_ID, caller>>

StoreLoad ==
  /\ LET r == LoadToken(file) IN
       /\ loaded' = r.val
       /\ exc' = r.exc
  /\ op' = "load"
  /\ file0' = file
  /\ UNCHANGED <<file, token, authHeader, pc, retry, calls, ret, saved, stored,
                 token0, S3_ID, caller>>

StoreDelete ==
  /\ \E removeOk \in BOOLEAN :
       LET d == DeleteToken(file, removeOk) IN
         /\ file' = d.file
         /\ exc' = d.exc
  /\ op' = "delete"
  /\ saved' = "none"
  /\ stored' = None
  /\ file0' = file
  /\ UNCHANGED <<token, authHeader, pc, retry, calls, ret, loaded, token0,
                 S3_ID, caller>>

StoreSaveCrash ==
  /\ \E t \in Tokens :
       \E k \in 0..Len(Encode(t)) :
         /\ file' = CrashWrite(file, t, k)
         /\ stored' = t
  /\ op' = "save_crash"
  /\ saved' = "crash"
  /\ exc' = "none"
  /\ file0' = file
  /\ UNCHANGED <<token, authHeader, pc, retry, calls, ret, loaded, token0,
                 S3_ID, caller>>

StoreNext ==
  \/ StoreSave
  \/ StoreLoad
  \/ StoreDelete
  \/ StoreSaveCrash

StoreSpec == Init /\ [][StoreNext]_vars


(***************************************************************************)
(* Properties.                                                             *)
(***************************************************************************)
IsData(c) == c.kind = "data"
IsLogin(c) == c.kind = "login"
IsRequest(c) == c.kind \in {"data", "login"}

\* The data dispatches, the login requests and all requests of the running
\* operation, in the order they were made.
DataCalls == SelectSeq(calls, IsData)
LoginCalls == SelectSeq(calls, IsLogin)
Requests == SelectSeq(calls, IsRequest)
Kinds(q) == [i \in 1..Len(q) |-> q[i].kind]

\* A login answer _authenticate turns into a token / into a failure.
LoginSucceeds(r) == r.status = 200 /\ r.body = "object" /\ Truthy(r.key)
LoginFails(r) == ~LoginSucceeds(r)

\* The operations that send their request without going through get.
DirectOps == {"create_task", "upload_image_to_taskID", "get_labels_for_task"}

\* C1: during one external get call at most one login request is made and
\* the data endpoint is dispatched at most twice; a second dispatch runs
\* with retry = FALSE, whatever the server answered.
C1_OneRefreshPerCall ==
  op = "get" =>
    /\ Len(LoginCalls) <= 1
    /\ Len(DataCalls) <= 2
    /\ \A i \in 2..Len(DataCalls) : DataCalls[i].retry = FALSE
    /\ (pc = "get" /\ Len(DataCalls) >= 1 => retry = FALSE)

C1_Witness ==
  /\ op = "get" /\ pc = "ready"
  /\ Len(DataCalls) = 2 /\ Len(LoginCalls) = 1
  /\ DataCalls[2].retry = FALSE

\* C2: once the data endpoint has answered 401 to the first and to the
\* retried attempt, get has returned None, after exactly one login request
\* and exactly two data dispatches; nothing further is pending.
C2_DoubleUnauthorizedFails ==
  ( /\ op = "get"
    /\ Len(DataCalls) >= 2
    /\ DataCalls[1].resp.status = 401
    /\ DataCalls[2].resp.status = 401 )
  => /\ pc = "ready"
     /\ ret = "None" /\ exc = "none"
     /\ Len(LoginCalls) = 1
     /\ Len(DataCalls) = 2

C2_Witness ==
  /\ op = "get" /\ pc = "ready" /\ ret = "None"
  /\ Len(DataCalls) = 2
  /\ DataCalls[1].resp.status = 401
  /\ DataCalls[2].resp.status = 401

\* C3: once the data endpoint has answered 401 to the first attempt and 200
\* to the retried one, the requests made were data, login, data in that
\* order, and get has returned the payload of the second answer.
C3_RefreshThenSuccess ==
  ( /\ op = "get"
    /\ Len(DataCalls) >= 2
    /\ DataCalls[1].resp.status = 401
    /\ DataCalls[2].resp.status = 200
    /\ DataCalls[2].resp.body # "nonjson" )
  => /\ pc = "ready"
     /\ exc = "none"
     /\ ret = DataCalls[2].resp.body
     /\ Kinds(Requests) = <<"data", "login", "data">>
     /\ LoginSucceeds(LoginCalls[1].resp)

C3_Witness ==
  /\ op = "get" /\ pc = "ready"
  /\ Len(DataCalls) = 2
  /\ DataCalls[1].resp = Resp(401, "noresults", None)
  /\ DataCalls[2].resp = Resp(200, "emptyresults", None)
  /\ ret = "emptyresults"

\* C4 (as claimed): a get call that went through the refresh login returns
\* a payload or None; no exception leaves it.
C4_RefreshFailureNeverEscapes ==
  (op = "get" /\ pc = "ready" /\ Len(LoginCalls) = 1) => exc = "none"

\* C5: constructing the session on a cache file holding a valid token
\* record makes no login request and ends with the session holding that token.
ValidRecord(f) == f.kind = "object" /\ f.token \in Tokens
C5_ValidCacheNoLogin ==
  (op = "init" /\ ValidRecord(file0)) =>
    /\ pc = "ready"
    /\ calls = <<>>
    /\ token = file0.token
    /\ exc = "none"

C5_Witness ==
  op = "init" /\ pc = "ready" /\ calls = <<>> /\ ValidRecord(file0) /\ token = 2

\* C6: constructing the session on a missing or corrupt cache file (absent,
\* unreadable, unparsable, not an object, no usable token field) makes
\* exactly one login request; construction fails only if that login fails.
CorruptOrMissing(f) ==
  \/ f.kind \in {"absent", "unreadable", "unparsable", "notobject"}
  \/ f.kind = "object" /\ ~Truthy(f.token)
C6_CorruptCacheOneLogin ==
  (op = "init" /\ CorruptOrMissing(file0)) =>
    \/ pc = "ctor_auth" /\ calls = <<>> /\ exc = "none"
    \/ /\ pc \in {"ready", "failed"}
       /\ Len(LoginCalls) = 1
       /\ (pc = "failed" <=> LoginFails(LoginCalls[1].resp))

C6_Witness ==
  /\ op = "init" /\ pc = "ready" /\ Len(LoginCalls) = 1
  /\ file0.kind = "notobject"

\* C7: a step of _authenticate whose login request fails (transport failure,
\* non-success status, no usable key in the body) leaves the cache file and
\* the session token as they were, reports an error and lets its caller
\* dispatch nothing further.
AuthFailure ==
  /\ pc \in {"ctor_auth", "get_auth"}
  /\ calls' # calls
  /\ LoginFails(calls'[Len(calls')].resp)
C7_FailedLoginPersistsNothing ==
  [][AuthFailure =>
       /\ file' = file
       /\ token' = token
       /\ saved' = "none"
       /\ pc' = IF pc = "ctor_auth" THEN "failed" ELSE "ready"
       /\ (pc = "ctor_auth" => exc' # "none")
       /\ (pc = "get_auth" => ret' = "None")]_vars

C7_Witness ==
  /\ op = "init" /\ pc = "failed" /\ exc = "HTTPError"
  /\ Len(LoginCalls) = 1 /\ LoginCalls[1].resp.status = 400
  /\ file = Absent

\* C8 (as claimed): no failure of reading, writing or removing the cache
\* file ever reaches the caller of the constructor or of get.
PersistenceErrors == {"OSError", "ValueError", "AttributeError"}
C8_PersistenceFailuresSwallowed == exc \notin PersistenceErrors

\* C9 (as claimed): a direct operation whose request is answered 401 logs in
\* once and dispatches once more.
C9_DirectOpsRetry ==
  ( /\ op \in DirectOps
    /\ pc = "ready"
    /\ Len(DataCalls) >= 1
    /\ DataCalls[1].resp.status = 401 )
  => /\ Len(LoginCalls) = 1
     /\ Len(DataCalls) = 2

\* The get call has gone through a refresh whose login succeeded, and is over.
RefreshedGetDone ==
  /\ op = "get" /\ pc = "ready"
  /\ Len(DataCalls) >= 1 /\ DataCalls[1].resp.status = 401
  /\ Len(LoginCalls) = 1 /\ LoginSucceeds(LoginCalls[1].resp)

\* C10 (as claimed): after a get whose first attempt got 401 and whose
\* refresh login succeeded, cache file and session hold the token of the
\* login answer and the retried dispatch carried it.
C10_RefreshReplacesCache ==
  RefreshedGetDone =>
    /\ token = LoginCalls[1].resp.key
    /\ file = File("object", LoginCalls[1].resp.key)
    /\ Len(DataCalls) = 2
    /\ DataCalls[2].auth = LoginCalls[1].resp.key

\* C10 (amended): the session holds the new token and the retried dispatch
\* carried it; the cache file holds the new token when its write succeeded,
\* and otherwise holds no token record at all (absent if the file could not
\* be opened, unparsable if the write broke off).
C10_RefreshReplacesToken ==
  RefreshedGetDone =>
    /\ token = LoginCalls[1].resp.key
    /\ Len(DataCalls) = 2
    /\ DataCalls[2].auth = LoginCalls[1].resp.key
    /\ saved \in SaveOutcomes
    /\ file = CASE saved = "ok" -> File("object", LoginCalls[1].resp.key)
                [] saved = "openfail" -> Absent
                [] saved = "writefail" -> File("unparsable", None)

C10_Witness ==
  /\ RefreshedGetDone
  /\ token0 = 1 /\ file0 = File("object", 1)
  /\ token = 2 /\ file = File("object", 2)
  /\ DataCalls[2].auth = 2 /\ DataCalls[1].auth = 1


\* The constructor found no cache file and its login was answered with a token.
FreshLoginDone ==
  /\ op = "init" /\ pc = "ready"
  /\ file0 = Absent
  /\ Len(LoginCalls) = 1 /\ LoginSucceeds(LoginCalls[1].resp)

\* C11 (as claimed): with the cache file absent and a login answer carrying
\* key = t, construction ends with the session holding t and the cache file
\* holding the record {token: t}.
C11_FreshLoginCaches ==
  FreshLoginDone =>
    /\ token = LoginCalls[1].resp.key
    /\ file = Decode(Encode(LoginCalls[1].resp.key))

\* C11 (amended): construction ends with the session holding t; the cache
\* file holds {token: t} when its write succeeded, stays absent when the
\* file could not be opened and is unparsable when the write broke off.
C11_FreshLoginHoldsToken ==
  FreshLoginDone =>
    /\ token = LoginCalls[1].resp.key
    /\ stored = LoginCalls[1].resp.key
    /\ saved \in SaveOutcomes
    /\ file = CASE saved = "ok" -> Decode(Encode(LoginCalls[1].resp.key))
                [] saved = "openfail" -> Absent
                [] saved = "writefail" -> File("unparsable", None)

C11_Witness ==
  /\ FreshLoginDone /\ saved = "ok"
  /\ token = 1 /\ file = File("object", 1) /\ calls[2].resp.key = 1

\* C12: a _save_token(t) whose write succeeded, followed by _load_token,
\* returns t, whatever the cache file held before.
C12_SaveLoadRoundTrip ==
  [][(op = "save" /\ saved = "ok" /\ op' = "load")
       => (loaded' = stored /\ exc' = "none")]_vars

C12_Witness ==
  /\ op = "load" /\ saved = "ok" /\ stored = 2 /\ loaded = 2
  /\ file0 = File("object", 2)

C14_GetTerminates ==
  /\ [](op = "get" => Len(calls) <= 4)
  /\ ((op = "get" /\ pc # "ready") ~> (pc = "ready"))

C14_Witness ==
  /\ op = "get" /\ pc = "ready" /\ Len(calls) = 4
  /\ calls[4].resp.status = 500

\* C15: once the first dispatch of a get call has ended in a transport
\* failure or a non-success status other than 401, get has returned None
\* after that single dispatch, without a login.
C15_FirstFailureIsTerminal ==
  ( /\ op = "get"
    /\ Len(calls) >= 1
    /\ calls[1].resp.status \notin {200, 401} )
  => /\ pc = "ready"
     /\ ret = "None" /\ exc = "none"
     /\ Len(calls) = 1
     /\ calls[1].kind = "data"

C15_Witness ==
  /\ op = "get" /\ pc = "ready" /\ ret = "None"
  /\ Len(calls) = 1 /\ calls[1].resp.status = 0

\* C16: a get call whose first answer is not 401, and every direct
\* operation, leaves the session token and the cache file as they were when
\* the operation was invoked.
C16_TokenFrame ==
  ( \/ op \in DirectOps
    \/ op = "get" /\ calls = <<>>
    \/ op = "get" /\ Len(calls) >= 1 /\ calls[1].resp.status # 401 )
  => /\ token = token0
     /\ file = file0
     /\ saved = "none"

C16_Witness ==
  /\ op = "get" /\ pc = "ready" /\ Len(calls) = 1
  /\ calls[1].resp.status = 404
  /\ token = 1 /\ token0 = 1 /\ file = File("object", 1)

\* C17: every data request is sent with the Authorization header built from
\* the session's token of that moment.
Dispatched ==
  calls' # calls /\ calls' # <<>> /\ calls'[Len(calls')].kind = "data"
C17_HeaderCarriesToken ==
  [][Dispatched => (calls'[Len(calls')].auth = token /\ token' = token)]_vars

C17_Witness ==
  /\ op = "get" /\ Len(DataCalls) = 2
  /\ DataCalls[1].auth = 2 /\ DataCalls[2].auth = 1 /\ token = 1

\* C18: when the process dies inside _save_token(t), a _load_token on the
\* file left behind returns None or t.
C18_CrashLeavesNoWrongToken ==
  [][(op = "save_crash" /\ op' = "load")
       => (loaded' \in {None, stored} /\ exc' = "none")]_vars

C18_Witness ==
  /\ op = "load" /\ saved = "crash" /\ stored = 2
  /\ file0 = File("unparsable", None) /\ loaded = None

\* C19: every login request comes right after the pause and every pause is
\* followed by its login request; no pause follows a failed attempt, and an
\* _authenticate step adds exactly one login request.
PauseThenLogin ==
  \A i \in 1..Len(calls) :
    /\ (calls[i].kind = "login" => i > 1 /\ calls[i - 1].kind = "sleep")
    /\ (calls[i].kind = "sleep" => i < Len(calls) /\ calls[i + 1].kind = "login")
AuthAddsOneLogin ==
  pc \in {"ctor_auth", "get_auth"} =>
    /\ Len(calls') = Len(calls) + 2
    /\ SubSeq(calls', 1, Len(calls)) = calls
    /\ Len(LoginCalls') = Len(LoginCalls) + 1
C19_PauseBeforeEveryLogin ==
  []PauseThenLogin /\ [][AuthAddsOneLogin]_vars

C19_Witness ==
  /\ op = "init" /\ pc = "failed"
  /\ Kinds(calls) = <<"sleep", "login">>
  /\ calls[2].resp.status = 0

\* C20: between public calls, a cache file that holds a valid token record
\* holds the session's token.
C20_CacheAgreesWithSession ==
  (pc = "ready" /\ ValidRecord(file)) => token = file.token

C20_Witness ==
  /\ pc = "ready" /\ op = "get" /\ ValidRecord(file)
  /\ token = file.token /\ token # token0 /\ file0 = File("object", token0)
  /\ exc = "none"

\* The get call went through a refresh whose login failed.
FailedRefresh ==
  /\ op = "get"
  /\ Len(LoginCalls) = 1
  /\ LoginFails(LoginCalls[1].resp)

\* C21: a constructed session holds a non-empty token, so no data request
\* is dispatched with a missing token: construction ends holding a token or
\* fails with an error, and a failed refresh leaves the token in place.
C21_SessionHoldsToken ==
  /\ pc \in {"ready", "get", "get_delete", "get_auth"} => Truthy(token)
  /\ pc = "failed" => exc # "none" /\ op = "init"
  /\ \A i \in 1..Len(calls) : IsData(calls[i]) => Truthy(calls[i].auth)
  /\ FailedRefresh => token = token0 /\ Truthy(token)

C21_Witness ==
  /\ FailedRefresh /\ pc = "ready"
  /\ loaded = None /\ token \in Tokens /\ token = token0
  /\ DataCalls[1].auth = token
  /\ LoginCalls[1].resp.key = None /\ LoginCalls[1].resp.status = 200

\* C22: when the refresh login fails, the get call is over without a second
\* dispatch, the cache file is absent, the session still holds the token it
\* had when the call began, and the next get call starts with retry enabled.
RefreshFailureState ==
  FailedRefresh =>
    /\ pc = "ready"
    /\ Len(DataCalls) = 1
    /\ DataCalls[1].resp.status = 401
    /\ calls[Len(calls)].kind = "login"
    /\ file = Absent
    /\ token = token0
    /\ authHeader = token0
NextGetHasBudget ==
  (FailedRefresh /\ pc' = "get") => (retry' /\ calls' = <<>> /\ token' = token)
C22_FailedRefreshLeavesOldToken ==
  []RefreshFailureState /\ [][NextGetHasBudget]_vars

C22_Witness ==
  /\ FailedRefresh /\ pc = "ready"
  /\ file0 = File("object", token0) /\ token0 \in Tokens
  /\ file = Absent /\ token = token0
  /\ LoginCalls[1].resp.status = 400
  /\ ret = "None" /\ exc = "none"

\* A get_cloudstorages call is over.
CloudStoragesDone ==
  op = "get" /\ caller = "get_cloudstorages" /\ pc = "ready"

\* list_s3_contents sends nothing while S3_ID is unset.
NoListingWhileUnset ==
  /\ op = "list_s3_contents" => calls = <<>> /\ S3_ID = None
  /\ (op = "get" /\ caller = "list_s3_contents") => S3_ID # None

\* S3_ID takes a value only at the end of a get_cloudstorages call whose
\* result holds a non-empty results list, and the value is the id of the
\* first storage.
S3IdSetOnlyByFetch ==
  (S3_ID' # S3_ID /\ S3_ID' # None) =>
    /\ caller = "get_cloudstorages" /\ pc' = "ready"
    /\ ret' = "storage" /\ exc' = "none"
    /\ S3_ID' = FirstStorageId
S3IdSafety ==
  []NoListingWhileUnset /\ [][S3IdSetOnlyByFetch]_vars

\* C23 (as claimed): list_s3_contents sends nothing while S3_ID is unset,
\* and a get_cloudstorages call that is over left S3_ID set if its result
\* held a non-empty results list and unset in every other case, whatever
\* S3_ID was before.
C23_S3IdFollowsLastFetch ==
  /\ NoListingWhileUnset
  /\ CloudStoragesDone =>
       S3_ID = IF ret = "storage" /\ exc = "none" THEN FirstStorageId ELSE None

=============================================================================
